---- MODULE Spec2Model ----
(***************************************************************************)
(* Model of the subscription aggregator of src/app/main.py: one inbound    *)
(* request handled by main(), which awaits fetch_links(), classifies the   *)
(* source lines, fans out one fetch_subscription() per endpoint under      *)
(* asyncio.gather, merges the outcomes with the inline entries and answers *)
(* with the base64 of the merged bytes.                                    *)
(*                                                                         *)
(* Text (str) is a sequence of code points, bytes a sequence of 0..255.    *)
(***************************************************************************)
EXTENDS Integers, Sequences, FiniteSets, TLC

\* Longest source-list document, in lines, that the model explores.
MaxLines == 3

(***************************************************************************)
(* Text and byte helpers (Python str / bytes methods used by the code).    *)
(***************************************************************************)
NL == 10

\* 'http'
HttpPrefix == <<104, 116, 116, 112>>

\* 'vless://'
VlessPrefix == <<118, 108, 101, 115, 115, 58, 47, 47>>

\* "There is nothing to return"
NothingDetail ==
    <<84, 104, 101, 114, 101, 32, 105, 115, 32, 110, 111, 116, 104, 105, 110,
      103, 32, 116, 111, 32, 114, 101, 116, 117, 114, 110>>

\* an HTTPException raised without a detail
EmptyDetail == <<>>

\* "Config file not found"
NotFoundDetail ==
    <<67, 111, 110, 102, 105, 103, 32, 102, 105, 108, 101, 32, 110, 111, 116,
      32, 102, 111, 117, 110, 100>>

\* str.isspace() for the code points below 256
IsSpace(c) == c \in {9, 10, 11, 12, 13, 28, 29, 30, 31, 32, 133, 160}

RECURSIVE LStrip(_)
LStrip(s) ==
    IF s = <<>> THEN <<>>
    ELSE IF IsSpace(Head(s)) THEN LStrip(Tail(s)) ELSE s

RECURSIVE RStrip(_)
RStrip(s) ==
    IF s = <<>> THEN <<>>
    ELSE IF IsSpace(s[Len(s)]) THEN RStrip(SubSeq(s, 1, Len(s) - 1)) ELSE s

\* str.strip()
Strip(s) == RStrip(LStrip(s))

\* p in s
Includes(s, p) ==
    \E o \in 0..(Len(s) - Len(p)) : SubSeq(s, o + 1, o + Len(p)) = p

\* str.startswith(p)
StartsWith(s, p) == Len(s) >= Len(p) /\ SubSeq(s, 1, Len(p)) = p

\* str.encode(): UTF-8
RECURSIVE Encode(_)
Encode(s) ==
    IF s = <<>> THEN <<>>
    ELSE LET c == Head(s) IN
         (IF c < 128 THEN <<c>>
          ELSE IF c < 2048 THEN <<192 + (c \div 64), 128 + (c % 64)>>
          ELSE <<224 + (c \div 4096), 128 + ((c \div 64) % 64), 128 + (c % 64)>>)
         \o Encode(Tail(s))

\* a join that ends every part with the separator
RECURSIVE BytesJoinTrailing(_, _)
BytesJoinTrailing(sep, parts) ==
    IF parts = <<>> THEN <<>>
    ELSE parts[1] \o sep \o BytesJoinTrailing(sep, Tail(parts))

\* sep.join(parts) on bytes
RECURSIVE BytesJoin(_, _)
BytesJoin(sep, parts) ==
    IF parts = <<>> THEN <<>>
    ELSE IF Len(parts) = 1 THEN parts[1]
    ELSE parts[1] \o sep \o BytesJoin(sep, Tail(parts))

(***************************************************************************)
(* base64.b64encode / base64.b64decode (binascii, non-strict mode).        *)
(***************************************************************************)
Pad == 61

\* the base64 alphabet: sextet -> ASCII code
B64Char(n) ==
    IF n < 26 THEN 65 + n
    ELSE IF n < 52 THEN 97 + (n - 26)
    ELSE IF n < 62 THEN 48 + (n - 52)
    ELSE IF n = 62 THEN 43 ELSE 47

IsB64(c) ==
    \/ c \in 65..90
    \/ c \in 97..122
    \/ c \in 48..57
    \/ c \in {43, 47}

\* ASCII code -> sextet
B64Val(c) ==
    IF c \in 65..90 THEN c - 65
    ELSE IF c \in 97..122 THEN c - 97 + 26
    ELSE IF c \in 48..57 THEN c - 48 + 52
    ELSE IF c = 43 THEN 62 ELSE 63

\* base64.b64encode(b): three bytes become four characters, the tail is
\* padded with '='
B64Encode[b \in Seq(0..255)] ==
    IF b = <<>> THEN <<>>
    ELSE IF Len(b) = 1 THEN
        <<B64Char(b[1] \div 4), B64Char((b[1] % 4) * 16), Pad, Pad>>
    ELSE IF Len(b) = 2 THEN
        <<B64Char(b[1] \div 4),
          B64Char((b[1] % 4) * 16 + (b[2] \div 16)),
          B64Char((b[2] % 16) * 4), Pad>>
    ELSE
        <<B64Char(b[1] \div 4),
          B64Char((b[1] % 4) * 16 + (b[2] \div 16)),
          B64Char((b[2] % 16) * 4 + (b[3] \div 64)),
          B64Char(b[3] % 64)>>
        \o B64Encode[Tail(Tail(Tail(b)))]

\* binascii.a2b_base64 without strict_mode: characters outside the alphabet
\* are skipped, a complete pad sequence ends the parse, a dangling quantum
\* is binascii.Error.
RECURSIVE a2b_base64(_, _, _, _, _)
a2b_base64(s, quad_pos, leftchar, pads, out) ==
    IF s = <<>> THEN
        IF quad_pos # 0
        THEN [ok |-> FALSE, val |-> <<>>, exc |-> "binascii.Error"]
        ELSE [ok |-> TRUE, val |-> out, exc |-> ""]
    ELSE IF quad_pos = 0 /\ Len(s) >= 4 /\ \A k \in 1..4 : IsB64(s[k]) THEN
        \* a whole quantum of four alphabet characters: three bytes
        a2b_base64(Tail(Tail(Tail(Tail(s)))), 0, 0, 0,
                   out \o <<B64Val(s[1]) * 4 + (B64Val(s[2]) \div 16),
                            (B64Val(s[2]) % 16) * 16 + (B64Val(s[3]) \div 4),
                            (B64Val(s[3]) % 4) * 64 + B64Val(s[4])>>)
    ELSE LET c == Head(s)
             r == Tail(s)
         IN  IF c = Pad THEN
                 IF quad_pos >= 2 /\ quad_pos + pads + 1 >= 4
                 THEN [ok |-> TRUE, val |-> out, exc |-> ""]
                 ELSE a2b_base64(r, quad_pos, leftchar,
                                 IF quad_pos >= 2 THEN pads + 1 ELSE pads, out)
             ELSE IF ~IsB64(c) THEN a2b_base64(r, quad_pos, leftchar, pads, out)
             ELSE LET v == B64Val(c) IN
                  CASE quad_pos = 0 -> a2b_base64(r, 1, v, 0, out)
                    [] quad_pos = 1 ->
                         a2b_base64(r, 2, v % 16, 0,
                                    Append(out, leftchar * 4 + (v \div 16)))
                    [] quad_pos = 2 ->
                         a2b_base64(r, 3, v % 4, 0,
                                    Append(out, leftchar * 16 + (v \div 4)))
                    [] quad_pos = 3 ->
                         a2b_base64(r, 0, 0, 0, Append(out, leftchar * 64 + v))

\* base64.b64decode(text) for a str argument: ASCII-encode, then a2b_base64
B64Decode(text) ==
    IF \E i \in 1..Len(text) : text[i] >= 128
    THEN [ok |-> FALSE, val |-> <<>>, exc |-> "ValueError"]
    ELSE a2b_base64(text, 0, 0, 0, <<>>)

(***************************************************************************)
(* The environment: configuration, source-list documents, upstream replies.*)
(***************************************************************************)
\* "https://sub.example/"
LineE ==
    <<104, 116, 116, 112, 115, 58, 47, 47, 115, 117, 98, 46, 101, 120, 97,
      109, 112, 108, 101, 47>>

\* "vless://user@host:443?x=1"
LineV ==
    <<118, 108, 101, 115, 115, 58, 47, 47, 117, 115, 101, 114, 64, 104, 111,
      115, 116, 58, 52, 52, 51, 63, 120, 61, 49>>

\* "\tvless://é " (padded, non-ASCII)
LineW == <<9, 118, 108, 101, 115, 115, 58, 47, 47, 233, 32>>

\* "ss://x" (neither prefix)
LineX == <<115, 115, 58, 47, 47, 120>>

\* the lines a source-list document of a request is made of
SourceLines == {LineE, LineV, LineW, LineX}

RECURSIVE SeqsUpTo(_, _)
SeqsUpTo(S, n) ==
    IF n = 0 THEN {<<>>}
    ELSE LET shorter == SeqsUpTo(S, n - 1)
         IN  shorter \cup {Append(d, x) : d \in shorter, x \in S}

Docs == SeqsUpTo(SourceLines, MaxLines)

\* the client identifier of the route: "" (GET /{path}) or "abc"
SubIds == {<<>>, <<97, 98, 99>>}

\* what one GET can end in: an httpx.TransportError (connection failure), an
\* httpx.TimeoutException, or a response with a status code and a text
Replies ==
    {[kind |-> "transport", code |-> 0, text |-> <<>>],
     [kind |-> "timeout", code |-> 0, text |-> <<>>],
     [kind |-> "response", code |-> 404, text |-> <<81, 81, 61, 61>>],
     [kind |-> "response", code |-> 200, text |-> <<81, 81, 61, 61>>],
     [kind |-> "response", code |-> 200, text |-> <<81, 103, 111, 61>>],
     [kind |-> "response", code |-> 200, text |-> <<81, 81>>],
     [kind |-> "response", code |-> 200, text |-> <<>>]}

NoReply == [kind |-> "pending", code |-> 0, text |-> <<>>]

\* Response.raise_for_status(): HTTPStatusError unless the status is 2xx
IsSuccess(code) == code \div 100 = 2

(***************************************************************************)
(* fetch_links                                                             *)
(***************************************************************************)
\* file.readlines() keeps each line's terminator
ReadLines(doc) == [i \in 1..Len(doc) |-> Append(doc[i], NL)]

\* response.text.splitlines() drops it
SplitLines(doc) == doc

RECURSIVE SelectStripped(_, _)
SelectStripped(lines, prefix) ==
    IF lines = <<>> THEN <<>>
    ELSE (IF StartsWith(Strip(Head(lines)), prefix)
          THEN <<Strip(Head(lines))>> ELSE <<>>)
         \o SelectStripped(Tail(lines), prefix)

\* the two list comprehensions of fetch_links
Classify(lines) ==
    [sub_links |-> SelectStripped(lines, HttpPrefix),
     vless_links |-> SelectStripped(lines, VlessPrefix)]

(***************************************************************************)
(* fetch_subscription and merge_all                                        *)
(***************************************************************************)
Pending == [st |-> "pending", val |-> <<>>, exc |-> ""]

\* fetch_subscription without isolation of transport failures
FetchSubscriptionPropagating(reply) ==
    IF reply.kind \in {"transport", "timeout"}
    THEN [st |-> "raised", val |-> <<>>, exc |-> "httpx.TransportError"]
    ELSE IF ~IsSuccess(reply.code)
    THEN [st |-> "none", val |-> <<>>, exc |-> ""]
    ELSE LET d == B64Decode(reply.text) IN
         IF d.ok THEN [st |-> "bytes", val |-> d.val, exc |-> ""]
         ELSE [st |-> "raised", val |-> <<>>, exc |-> d.exc]

\* the result of one fetch_subscription coroutine for the reply its GET got:
\* bytes, None, or an exception that leaves the coroutine
FetchSubscription(reply) ==
    IF reply.kind \in {"transport", "timeout"}
    THEN [st |-> "none", val |-> <<>>, exc |-> ""]
    ELSE IF ~IsSuccess(reply.code)
    THEN [st |-> "none", val |-> <<>>, exc |-> ""]
    ELSE LET d == B64Decode(reply.text) IN
         IF d.ok THEN [st |-> "bytes", val |-> d.val, exc |-> ""]
         ELSE [st |-> "raised", val |-> <<>>, exc |-> d.exc]

\* results appended as the tasks complete
GatherByCompletion(slots, order) == [k \in 1..Len(order) |-> slots[order[k]]]

\* what gather() hands back: one result per awaitable, in the order the
\* awaitables were passed; order is the order in which they completed
GatherResults(slots, order) == slots

\* data = [x for x in tmp if x is not None]
RECURSIVE NotNone(_)
NotNone(results) ==
    IF results = <<>> THEN <<>>
    ELSE (IF Head(results).st = "bytes" THEN <<Head(results).val>> ELSE <<>>)
         \o NotNone(Tail(results))

\* a merge that separates the two blocks with a newline
MergeSeparated(data, links) ==
    BytesJoin(<<>>, data) \o <<NL>>
    \o BytesJoin(<<NL>>, [i \in 1..Len(links) |-> Encode(links[i])])

\* merged_subs + merged_configs
Merge(data, links) ==
    BytesJoin(<<>>, data) \o BytesJoin(<<NL>>, [i \in 1..Len(links) |-> Encode(links[i])])

(***************************************************************************)
(* build_optional_headers                                                  *)
(***************************************************************************)
\* the environment variables build_optional_headers reads
EnvNames ==
    {"PROFILE_TITLE", "SUB_NAME", "SUPPORT_URL", "PROFILE_WEB_PAGE_URL",
     "ANNOUNCE", "PROFILE_UPDATE_INTERVAL", "PROVIDER_ID"}

\* the six optional headers
HeaderNames ==
    {"profile-title", "support-url", "profile-web-page-url", "announce",
     "profile-update-interval", "providerid"}

\* None
None == [set |-> FALSE, val |-> <<>>]

Str(v) == [set |-> TRUE, val |-> v]

\* what a variable of the environment can be: unset, "", " \t", " x\t", "y"
\* (header values are text an HTTP header can carry)
EnvValues ==
    {None, Str(<<>>), Str(<<32, 9>>), Str(<<32, 120, 9>>), Str(<<121>>)}

Envs == [EnvNames -> EnvValues]

UnsetEnv == [n \in EnvNames |-> None]

\* PROFILE_TITLE blank, SUB_NAME, SUPPORT_URL and ANNOUNCE set, the rest
\* unset, empty or blank
MixedEnv ==
    [n \in EnvNames |->
        CASE n = "PROFILE_TITLE" -> Str(<<32, 9>>)
          [] n = "SUB_NAME" -> Str(<<121>>)
          [] n = "SUPPORT_URL" -> Str(<<32, 120, 9>>)
          [] n = "ANNOUNCE" -> Str(<<121>>)
          [] n = "PROVIDER_ID" -> Str(<<>>)
          [] OTHER -> None]

\* the environment of the process that serves the requests of Spec; every
\* environment is drawn in SpecHeaders
RequestEnvs == {MixedEnv}

\* bool(value) of a str | None
Truthy(v) == v.set /\ v.val # <<>>

\* a or b
Or(a, b) == IF Truthy(a) THEN a ELSE b

\* _get_env without the strip
GetEnvUnstripped(e, name) ==
    IF ~e[name].set THEN None
    ELSE Or(e[name], None)

\* _get_env(name) in the environment e
GetEnv(e, name) ==
    IF ~e[name].set THEN None
    ELSE Or(Str(Strip(e[name].val)), None)

\* the headers dict before the filter
HeaderCandidates(e) ==
    [h \in HeaderNames |->
        CASE h = "profile-title" ->
                 Or(GetEnv(e, "PROFILE_TITLE"), GetEnv(e, "SUB_NAME"))
          [] h = "support-url" -> GetEnv(e, "SUPPORT_URL")
          [] h = "profile-web-page-url" -> GetEnv(e, "PROFILE_WEB_PAGE_URL")
          [] h = "announce" -> GetEnv(e, "ANNOUNCE")
          [] h = "profile-update-interval" -> GetEnv(e, "PROFILE_UPDATE_INTERVAL")
          [] h = "providerid" -> GetEnv(e, "PROVIDER_ID")]

\* {key: value for key, value in headers.items() if value}
build_optional_headers(e) ==
    LET headers == HeaderCandidates(e)
    IN  [h \in {k \in HeaderNames : Truthy(headers[k])} |-> headers[h].val]

\* a response without any of the optional headers
NoHeaders == [h \in {} |-> <<>>]

(***************************************************************************)
(* State                                                                   *)
(***************************************************************************)
VARIABLES
    env,          \* the process environment read by build_optional_headers
    local_mode,   \* os.getenv('LOCAL_MODE') == 'on'
    sub_id,       \* the route's client identifier
    pc,           \* where main() is: "fetch_links", "main", "gather", "done"
    source,       \* how the source-list read ended
    lines,        \* the lines fetch_links read
    sub_links,    \* classified subscription endpoints
    vless_links,  \* classified inline entries
    requested,    \* the URLs of the subscription GETs issued, by position
    replies,      \* what each GET ended in
    tmp,          \* the outcome slot of each fetch_subscription task
    done,         \* positions of the finished tasks, in completion order
    response      \* what main() ended in

vars == <<env, local_mode, sub_id, pc, source, lines, sub_links, vless_links,
          requested, replies, tmp, done, response>>

NoResponse ==
    [kind |-> "none", status |-> 0, content |-> <<>>, detail |-> <<>>,
     exc |-> "", headers |-> NoHeaders]

\* return Response(content=..., media_type='text/plain', headers=headers)
Ok200(content, headers) ==
    [kind |-> "response", status |-> 200, content |-> content, detail |-> <<>>,
     exc |-> "", headers |-> headers]

\* raise HTTPException(status_code=..., detail=...)
HTTPException(status, detail) ==
    [kind |-> "http_exception", status |-> status, content |-> <<>>,
     detail |-> detail, exc |-> "", headers |-> NoHeaders]

\* an exception other than HTTPException leaves main()
Unhandled(exc) ==
    [kind |-> "unhandled", status |-> 0, content |-> <<>>, detail |-> <<>>,
     exc |-> exc, headers |-> NoHeaders]

Init ==
    /\ env \in RequestEnvs
    /\ local_mode \in BOOLEAN
    /\ sub_id \in SubIds
    /\ pc = "fetch_links"
    /\ source = "none"
    /\ lines = <<>>
    /\ sub_links = <<>>
    /\ vless_links = <<>>
    /\ requested = <<>>
    /\ replies = <<>>
    /\ tmp = <<>>
    /\ done = <<>>
    /\ response = NoResponse

\* fetch_links returns the classified lists of the lines it read
FetchLinksReturn(read) ==
    /\ lines' = read
    /\ sub_links' = Classify(read).sub_links
    /\ vless_links' = Classify(read).vless_links
    /\ source' = "ok"
    /\ pc' = "main"
    /\ UNCHANGED <<env, local_mode, sub_id, requested, replies, tmp, done, response>>

\* an exception leaves fetch_links and main
FetchLinksRaise(how, resp) ==
    /\ source' = how
    /\ response' = resp
    /\ pc' = "done"
    /\ UNCHANGED <<env, local_mode, sub_id, lines, sub_links, vless_links,
                   requested, replies, tmp, done>>

\* LOCAL_MODE on: configs.txt is read
FetchLinksLocal ==
    /\ pc = "fetch_links"
    /\ local_mode
    /\ \E doc \in Docs : FetchLinksReturn(ReadLines(doc))

\* a failed local read answered like a failed remote one
FetchLinksLocalErrorAs404 ==
    /\ pc = "fetch_links"
    /\ local_mode
    /\ FetchLinksRaise("io_error", HTTPException(404, NotFoundDetail))

\* LOCAL_MODE on: open() or the read fails; FileNotFoundError is logged and
\* re-raised, any other OSError is not caught at all
FetchLinksLocalError ==
    /\ pc = "fetch_links"
    /\ local_mode
    /\ \E e \in {"FileNotFoundError", "PermissionError"} :
           FetchLinksRaise("io_error", Unhandled(e))

\* remote mode: the document GET answers 2xx
FetchLinksRemote ==
    /\ pc = "fetch_links"
    /\ ~local_mode
    /\ \E doc \in Docs : FetchLinksReturn(SplitLines(doc))

\* remote mode: raise_for_status() raises HTTPStatusError, mapped to 404
FetchLinksRemoteStatus ==
    /\ pc = "fetch_links"
    /\ ~local_mode
    /\ FetchLinksRaise("status_error", HTTPException(404, NotFoundDetail))

\* remote mode: client.get raises a transport error (ConnectError, a
\* timeout); only HTTPStatusError and FileNotFoundError are caught
FetchLinksRemoteTransport ==
    /\ pc = "fetch_links"
    /\ ~local_mode
    /\ \E e \in {"httpx.ConnectError", "httpx.ConnectTimeout"} :
           FetchLinksRaise("transport_error", Unhandled(e))

\* main: both lists empty
MainNothing ==
    /\ pc = "main"
    /\ sub_links = <<>> /\ vless_links = <<>>
    /\ response' = HTTPException(500, NothingDetail)
    /\ pc' = "done"
    /\ UNCHANGED <<env, local_mode, sub_id, source, lines, sub_links, vless_links,
                   requested, replies, tmp, done>>

\* one GET per distinct URL: a repeated endpoint is fetched once
RECURSIVE IssuedOncePerUrl(_, _)
IssuedOncePerUrl(links, id) ==
    IF links = <<>> THEN <<>>
    ELSE LET rest == IssuedOncePerUrl(SubSeq(links, 1, Len(links) - 1), id)
             url == links[Len(links)] \o id
         IN  IF \E k \in 1..Len(rest) : rest[k] = url THEN rest
             ELSE Append(rest, url)

\* the GETs of the fetch_subscription coroutines merge_all creates, one per
\* position of the list: client.get(f'{sub_link}{sub_id}')
Issued(links, id) == [i \in 1..Len(links) |-> links[i] \o id]

\* merge_all entered although both lists are empty
MergeStartUnguarded ==
    /\ pc = "main"
    /\ requested' = Issued(sub_links, sub_id)
    /\ replies' = [i \in 1..Len(sub_links) |-> NoReply]
    /\ tmp' = [i \in 1..Len(sub_links) |-> Pending]
    /\ done' = <<>>
    /\ pc' = "gather"
    /\ UNCHANGED <<env, local_mode, sub_id, source, lines, sub_links,
                   vless_links, response>>

\* main calls merge_all: one fetch_subscription per position, all handed to
\* gather; each issues its GET to sub_link + sub_id
MergeStart ==
    /\ pc = "main"
    /\ ~(sub_links = <<>> /\ vless_links = <<>>)
    /\ requested' = Issued(sub_links, sub_id)
    /\ replies' = [i \in 1..Len(sub_links) |-> NoReply]
    /\ tmp' = [i \in 1..Len(sub_links) |-> Pending]
    /\ done' = <<>>
    /\ pc' = "gather"
    /\ UNCHANGED <<env, local_mode, sub_id, source, lines, sub_links, vless_links,
                   response>>

\* the GET of position i ends and its fetch_subscription task finishes
FetchComplete(i, r) ==
    /\ pc = "gather"
    /\ i \in 1..Len(tmp)
    /\ tmp[i].st = "pending"
    /\ replies' = [replies EXCEPT ![i] = r]
    /\ tmp' = [tmp EXCEPT ![i] = FetchSubscription(r)]
    /\ done' = Append(done, i)
    /\ UNCHANGED <<env, local_mode, sub_id, pc, source, lines, sub_links,
                   vless_links, requested, response>>

\* the first task whose coroutine raised
FirstRaised ==
    LET k == CHOOSE k \in 1..Len(done) :
                 /\ tmp[done[k]].st = "raised"
                 /\ \A j \in 1..(k - 1) : tmp[done[j]].st # "raised"
    IN  done[k]

\* gather (return_exceptions=False) propagates the first exception of a task
\* to merge_all as soon as it is raised; the other tasks are not awaited
GatherRaise ==
    /\ pc = "gather"
    /\ \E i \in 1..Len(tmp) : tmp[i].st = "raised"
    /\ response' = Unhandled(tmp[FirstRaised].exc)
    /\ pc' = "done"
    /\ UNCHANGED <<env, local_mode, sub_id, source, lines, sub_links, vless_links,
                   requested, replies, tmp, done>>

\* every task finished without raising: merge_all applies the failure
\* policy, merges, and main answers with the base64 of the merged bytes
GatherReturn ==
    /\ pc = "gather"
    /\ \A i \in 1..Len(tmp) : tmp[i].st \in {"none", "bytes"}
    /\ LET data == NotNone(GatherResults(tmp, done)) IN
           response' =
               IF data = <<>> /\ vless_links = <<>>
               THEN HTTPException(500, NothingDetail)
               ELSE Ok200(B64Encode[Merge(data, vless_links)],
                          build_optional_headers(env))
    /\ pc' = "done"
    /\ UNCHANGED <<env, local_mode, sub_id, source, lines, sub_links, vless_links,
                   requested, replies, tmp, done>>

Next ==
    \/ FetchLinksLocal
    \/ FetchLinksLocalError
    \/ FetchLinksRemote
    \/ FetchLinksRemoteStatus
    \/ FetchLinksRemoteTransport
    \/ MainNothing
    \/ MergeStart
    \/ \E i \in 1..Len(tmp), r \in Replies : FetchComplete(i, r)
    \/ GatherRaise
    \/ GatherReturn

Spec == Init /\ [][Next]_vars

TypeOK ==
    /\ pc \in {"fetch_links", "main", "gather", "done"}
    /\ Len(tmp) = Len(replies)
    /\ Len(done) <= Len(tmp)

(***************************************************************************)
(* What the client of the route receives.  FastAPI answers a returned      *)
(* Response as it is, an HTTPException with its status and detail, and any *)
(* other exception leaving the handler with 500 "Internal Server Error".   *)
(***************************************************************************)
\* "Internal Server Error"
InternalErrorText ==
    <<73, 110, 116, 101, 114, 110, 97, 108, 32, 83, 101, 114, 118, 101, 114,
      32, 69, 114, 114, 111, 114>>

ClientStatus(resp) == IF resp.kind = "unhandled" THEN 500 ELSE resp.status

ClientText(resp) ==
    IF resp.kind = "response" THEN resp.content
    ELSE IF resp.kind = "http_exception" THEN resp.detail
    ELSE InternalErrorText

(***************************************************************************)
(* Vocabulary of the properties                                            *)
(***************************************************************************)
Tasks == 1..Len(tmp)

Ended == pc = "done"

\* the request ended with the 200 response of main()
Ended200 == pc = "done" /\ response.kind = "response" /\ response.status = 200

\* the bytes a client obtains by base64-decoding the response body
Body == B64Decode(response.content).val

Succeeded(i) == tmp[i].st = "bytes"

\* the GET of position i ended in a transport error, a timeout or a non-2xx
TransportFailed(i) ==
    \/ replies[i].kind \in {"transport", "timeout"}
    \/ replies[i].kind = "response" /\ replies[i].code \notin 200..299

\* the GET of position i was answered 2xx with a text base64 cannot decode
Undecodable(i) ==
    /\ replies[i].kind = "response"
    /\ replies[i].code \in 200..299
    /\ ~B64Decode(replies[i].text).ok

\* every issued fetch reached an outcome and none of them is a payload
AllFetchesFailed ==
    /\ source = "ok"
    /\ \A i \in Tasks : replies[i].kind # "pending" /\ ~Succeeded(i)

\* number of payload bytes of the successful positions before position i
RECURSIVE SubsBefore(_)
SubsBefore(i) ==
    IF i <= 1 THEN 0
    ELSE SubsBefore(i - 1)
         + (IF Succeeded(i - 1) THEN Len(tmp[i - 1].val) ELSE 0)

SubsLen == SubsBefore(Len(tmp) + 1)

\* position of task i in the completion order
DonePos(i) == CHOOSE k \in 1..Len(done) : done[k] = i

\* needle occurs in hay
Contains(hay, needle) ==
    \E o \in 0..(Len(hay) - Len(needle)) :
        \A k \in 1..Len(needle) : hay[o + k] = needle[k]

\* "nothing to return"
NothingWords ==
    <<110, 111, 116, 104, 105, 110, 103, 32, 116, 111, 32, 114, 101, 116, 117,
      114, 110>>

(***************************************************************************)
(* C1: in every 200 response the payload of each successful endpoint sits  *)
(* at the offset given by the successful endpoints before it in the input  *)
(* list, whatever the order in which the fetches completed.                *)
(***************************************************************************)
MergeOrderIsInputOrder ==
    Ended200 =>
        \A i \in Tasks :
            Succeeded(i) =>
                SubSeq(Body, SubsBefore(i) + 1, SubsBefore(i) + Len(tmp[i].val))
                    = tmp[i].val

\* two endpoints succeed with different payloads, the later one first
SlowThenFastMerged ==
    /\ Ended200
    /\ \E i, j \in Tasks :
           /\ i < j
           /\ Succeeded(i) /\ Succeeded(j)
           /\ tmp[i].val # <<>> /\ tmp[j].val # <<>>
           /\ tmp[i].val # tmp[j].val
           /\ DonePos(j) < DonePos(i)

UndecodableIsAbsent ==
    /\ \A i \in Tasks : Undecodable(i) => tmp[i].st = "none"
    /\ (Ended /\ source = "ok" /\ \E i \in Tasks : Undecodable(i)) =>
           response.kind # "unhandled"

(***************************************************************************)
(* C4: when every fetch failed (or there is no endpoint) and there is no   *)
(* inline entry, the client gets HTTP 500 with a detail that mentions      *)
(* "nothing to return".                                                    *)
(***************************************************************************)
AllFailedNoInlineIs500 ==
    (Ended /\ AllFetchesFailed /\ vless_links = <<>>) =>
        /\ response.kind = "http_exception"
        /\ ClientStatus(response) = 500
        /\ Contains(ClientText(response), NothingWords)

(***************************************************************************)
(* C5: when every fetch failed and there are inline entries, the client    *)
(* gets HTTP 200 and the decoded body is the inline entries joined by one  *)
(* newline.                                                                *)
(***************************************************************************)
AllFailedInlineOnly ==
    (Ended /\ AllFetchesFailed /\ Len(sub_links) > 0 /\ vless_links # <<>>) =>
        /\ Ended200
        /\ Body = BytesJoin(<<NL>>, [k \in 1..Len(vless_links) |-> Encode(vless_links[k])])

(***************************************************************************)
(* C6 (as amended): with the source list [LineE, LineV], client identifier *)
(* "abc" and the endpoint answering base64("A"), the merged payload is "A" *)
(* directly followed by the inline entry, with no newline between the two  *)
(* blocks, and the response body is the base64 of exactly those bytes.     *)
(***************************************************************************)
\* "abc"
Abc == <<97, 98, 99>>

EndToEndScenario ==
    /\ Ended
    /\ source = "ok"
    /\ lines \in {SplitLines(<<LineE, LineV>>), ReadLines(<<LineE, LineV>>)}
    /\ sub_id = Abc
    /\ Len(tmp) = 1
    /\ requested = <<LineE \o Abc>>
    /\ replies[1] = [kind |-> "response", code |-> 200, text |-> <<81, 81, 61, 61>>]

\* base64 of "A" + "vless://user@host:443?x=1"
EndToEndContent ==
    <<81, 88, 90, 115, 90, 88, 78, 122, 79, 105, 56, 118, 100, 88, 78, 108,
      99, 107, 66, 111, 98, 51, 78, 48, 79, 106, 81, 48, 77, 122, 57, 52, 80,
      84, 69, 61>>

\* base64 of "A" + "\n" + "vless://user@host:443?x=1"
EndToEndContentWithNewline ==
    <<81, 81, 112, 50, 98, 71, 86, 122, 99, 122, 111, 118, 76, 51, 86, 122,
      90, 88, 74, 65, 97, 71, 57, 122, 100, 68, 111, 48, 78, 68, 77, 47, 101,
      68, 48, 120>>

EndToEndNoSeparator ==
    EndToEndScenario =>
        /\ Ended200
        /\ Body = <<65>> \o LineV
        /\ response.content = EndToEndContent

\* C6 as stated: a newline separates the subscription block from the
\* inline block
EndToEndNewlineSeparated ==
    EndToEndScenario =>
        /\ Ended200
        /\ Body = <<65, NL>> \o LineV
        /\ response.content = EndToEndContentWithNewline

EndToEndAnswered == EndToEndScenario /\ Ended200

(***************************************************************************)
(* C7: the merged payload is the successful payloads back to back, then,   *)
(* with nothing in between, the inline entries, each one but the first     *)
(* preceded by exactly one newline byte, and nothing after the last; the   *)
(* response body is the base64 encoding of that byte sequence.             *)
(***************************************************************************)
\* offset of the k-th inline entry in the merged payload
RECURSIVE InlineOffset(_)
InlineOffset(k) ==
    IF k <= 1 THEN SubsLen
    ELSE InlineOffset(k - 1) + Len(Encode(vless_links[k - 1])) + 1

MergedLength ==
    IF vless_links = <<>> THEN SubsLen
    ELSE InlineOffset(Len(vless_links)) + Len(Encode(vless_links[Len(vless_links)]))

MergedLayout ==
    Ended200 =>
        /\ B64Decode(response.content).ok
        /\ Len(Body) = MergedLength
        /\ \A i \in Tasks :
               Succeeded(i) =>
                   \A b \in 1..Len(tmp[i].val) :
                       Body[SubsBefore(i) + b] = tmp[i].val[b]
        /\ \A k \in 1..Len(vless_links) :
               /\ SubSeq(Body, InlineOffset(k) + 1,
                         InlineOffset(k) + Len(Encode(vless_links[k])))
                      = Encode(vless_links[k])
               /\ k > 1 => Body[InlineOffset(k)] = NL
        /\ Len(response.content) = 4 * ((Len(Body) + 2) \div 3)
        /\ response.content = B64Encode[Body]

\* a payload followed by two inline entries
SubsAndInlineMerged ==
    /\ Ended200
    /\ \E i \in Tasks : Succeeded(i) /\ tmp[i].val # <<>>
    /\ Len(vless_links) >= 2

(***************************************************************************)
(* C8: in remote mode a failed source-list request, by a non-2xx answer or *)
(* by a transport error, ends the request with HTTP 404 and no             *)
(* subscription fetch is issued.                                           *)
(***************************************************************************)
RemoteSourceFailureIs404 ==
    (Ended /\ ~local_mode /\ source \in {"status_error", "transport_error"}) =>
        /\ ClientStatus(response) = 404
        /\ requested = <<>>

(***************************************************************************)
(* C9: every request eventually ends, and ends with HTTP 200 and a merged  *)
(* payload, with HTTP 404 and a text, or with HTTP 500 and a text.         *)
(***************************************************************************)
OneOfThreeOutcomes ==
    \/ ClientStatus(response) = 200 /\ response.kind = "response"
    \/ ClientStatus(response) = 404 /\ ClientText(response) # <<>>
    \/ ClientStatus(response) = 500 /\ ClientText(response) # <<>>

\* every await of the handler is bounded (timeout=6, timeout=3) and the
\* event loop runs whatever is ready
FairSpec == Spec /\ WF_vars(Next)

EveryRequestEnds == <>[](Ended /\ OneOfThreeOutcomes)

\* each of the five endpoint outcomes leads to an end: here an undecodable
\* body next to a timeout
EndedAfterMixedOutcomes ==
    /\ Ended
    /\ OneOfThreeOutcomes
    /\ \E i, j \in Tasks :
           /\ Undecodable(i)
           /\ replies[j].kind = "timeout"

(***************************************************************************)
(* The classification of fetch_links on its own: a document is drawn, its  *)
(* lines are classified, and the two classified lists are classified       *)
(* again as if they were the lines.                                        *)
(***************************************************************************)
\* "  http://b/\t"
LinePaddedHttp == <<32, 32, 104, 116, 116, 112, 58, 47, 47, 98, 47, 9>>

\* "HTTP://c/"
LineUpperHttp == <<72, 84, 84, 80, 58, 47, 47, 99, 47>>

\* "vless://http"
LineVlessHttp == <<118, 108, 101, 115, 115, 58, 47, 47, 104, 116, 116, 112>>

\* "htt"
LineShort == <<104, 116, 116>>

\* " \t"
LineBlank == <<32, 9>>

ClassifyLines ==
    {LineE, LinePaddedHttp, LineUpperHttp, LineV, LineW, LineVlessHttp,
     LineX, LineShort, LineBlank, <<>>}

ClassifyDocs == SeqsUpTo(ClassifyLines, MaxLines)

InitClassify ==
    /\ env = UnsetEnv
    /\ local_mode \in BOOLEAN
    /\ sub_id = <<>>
    /\ pc = "read"
    /\ source = "none"
    /\ lines = <<>>
    /\ sub_links = <<>>
    /\ vless_links = <<>>
    /\ requested = <<>>
    /\ replies = <<>>
    /\ tmp = <<>>
    /\ done = <<>>
    /\ response = NoResponse

\* the lines are read and classified
ClassifyRead ==
    /\ pc = "read"
    /\ \E doc \in ClassifyDocs :
           LET read == IF local_mode THEN ReadLines(doc) ELSE SplitLines(doc)
           IN  /\ lines' = read
               /\ sub_links' = Classify(read).sub_links
               /\ vless_links' = Classify(read).vless_links
    /\ source' = "ok"
    /\ pc' = "classified"
    /\ UNCHANGED <<env, local_mode, sub_id, requested, replies, tmp, done, response>>

\* the classified lists are classified again
ClassifyAgain ==
    /\ pc = "classified"
    /\ sub_links' = Classify(sub_links \o vless_links).sub_links
    /\ vless_links' = Classify(sub_links \o vless_links).vless_links
    /\ pc' = "reclassified"
    /\ UNCHANGED <<env, local_mode, sub_id, source, lines, requested, replies, tmp,
                   done, response>>

NextClassify == ClassifyRead \/ ClassifyAgain

SpecClassify == InitClassify /\ [][NextClassify]_vars

\* the text of line i without its leading and trailing whitespace
Trimmed(i) ==
    LET l == lines[i]
        first == {a \in 1..Len(l) : ~IsSpace(l[a])}
    IN  IF first = {} THEN <<>>
        ELSE SubSeq(l, CHOOSE a \in first : \A c \in first : a <= c,
                       CHOOSE z \in first : \A c \in first : c <= z)

HasPrefix(t, p) == Len(t) >= Len(p) /\ \A k \in 1..Len(p) : t[k] = p[k]

EndpointLines == {i \in 1..Len(lines) : HasPrefix(Trimmed(i), HttpPrefix)}

InlineLines == {i \in 1..Len(lines) : HasPrefix(Trimmed(i), VlessPrefix)}

\* list holds exactly the trimmed lines of the positions in P, in order
HoldsInOrder(list, P) ==
    /\ Len(list) = Cardinality(P)
    /\ \A i \in P : list[Cardinality({j \in P : j <= i})] = Trimmed(i)

(***************************************************************************)
(* C10: every line lands, trimmed, in exactly one of the endpoint list     *)
(* (starts with "http"), the inline list (starts with "vless://") or       *)
(* nowhere, order preserved; and classifying the two lists again leaves    *)
(* them as they are.                                                       *)
(***************************************************************************)
ClassificationPartitions ==
    pc \in {"classified", "reclassified"} =>
        /\ EndpointLines \cap InlineLines = {}
        /\ HoldsInOrder(sub_links, EndpointLines)
        /\ HoldsInOrder(vless_links, InlineLines)

\* a padded endpoint, a padded inline entry and a dropped line, classified
\* twice
ClassifiedTwice ==
    /\ pc = "reclassified"
    /\ \E i \in EndpointLines : lines[i] # Trimmed(i)
    /\ \E i \in InlineLines : lines[i] # Trimmed(i)
    /\ \E i \in 1..Len(lines) : i \notin EndpointLines \cup InlineLines

(***************************************************************************)
(* build_optional_headers on its own: an environment is drawn and main     *)
(* answers a merged payload with the headers built from it.                *)
(***************************************************************************)
InitHeaders ==
    /\ env \in Envs
    /\ local_mode = FALSE
    /\ sub_id = <<>>
    /\ pc = "respond"
    /\ source = "ok"
    /\ lines = <<>>
    /\ sub_links = <<>>
    /\ vless_links = <<>>
    /\ requested = <<>>
    /\ replies = <<>>
    /\ tmp = <<>>
    /\ done = <<>>
    /\ response = NoResponse

\* headers = build_optional_headers(); return Response(...)
RespondWithHeaders ==
    /\ pc = "respond"
    /\ response' = Ok200(B64Encode[<<65>>], build_optional_headers(env))
    /\ pc' = "done"
    /\ UNCHANGED <<env, local_mode, sub_id, source, lines, sub_links,
                   vless_links, requested, replies, tmp, done>>

NextHeaders == RespondWithHeaders

SpecHeaders == InitHeaders /\ [][NextHeaders]_vars

\* the variable is set and has a character that is not whitespace
NonBlank(name) ==
    /\ env[name].set
    /\ \E k \in 1..Len(env[name].val) : ~IsSpace(env[name].val[k])

\* the variable a header is named after
EnvOf(h) ==
    CASE h = "profile-title" -> "PROFILE_TITLE"
      [] h = "support-url" -> "SUPPORT_URL"
      [] h = "profile-web-page-url" -> "PROFILE_WEB_PAGE_URL"
      [] h = "announce" -> "ANNOUNCE"
      [] h = "profile-update-interval" -> "PROFILE_UPDATE_INTERVAL"
      [] h = "providerid" -> "PROVIDER_ID"

\* the header has a value to carry: for profile-title PROFILE_TITLE or,
\* failing that, SUB_NAME
Configured(h) ==
    \/ NonBlank(EnvOf(h))
    \/ h = "profile-title" /\ NonBlank("SUB_NAME")

(***************************************************************************)
(* C11 (as amended): a 200 response carries an optional header exactly     *)
(* when its configuration value is set and not blank, where profile-title  *)
(* takes PROFILE_TITLE or, when that is unset or blank, SUB_NAME; a header *)
(* that is carried never has an empty value, and no other response carries *)
(* any of them.                                                            *)
(***************************************************************************)
OptionalHeadersOnlyWhenConfigured ==
    /\ DOMAIN response.headers \subseteq HeaderNames
    /\ ~Ended200 => DOMAIN response.headers = {}
    /\ Ended200 =>
           \A h \in HeaderNames :
               /\ h \in DOMAIN response.headers <=> Configured(h)
               /\ h \in DOMAIN response.headers =>
                      /\ response.headers[h] # <<>>
                      /\ ~IsSpace(response.headers[h][1])

\* C11 as stated: each header is carried only if the one variable it is
\* named after is set and not blank
OptionalHeadersOnlyOwnVariable ==
    Ended200 =>
        \A h \in HeaderNames :
            h \in DOMAIN response.headers => NonBlank(EnvOf(h))

\* a 200 response with a header left out for a blank variable, one left out
\* for an unset variable, and profile-title taken from SUB_NAME
HeadersPartlyConfigured ==
    /\ Ended200
    /\ \E h \in HeaderNames :
           /\ env[EnvOf(h)].set /\ ~NonBlank(EnvOf(h))
           /\ h \notin DOMAIN response.headers
    /\ \E h \in HeaderNames :
           ~env[EnvOf(h)].set /\ h \notin DOMAIN response.headers
    /\ \E h \in DOMAIN response.headers : h # "profile-title"
    /\ ~NonBlank("PROFILE_TITLE")
    /\ "profile-title" \in DOMAIN response.headers

(***************************************************************************)
(* C12: merge_all returns or raises only when every fetch it issued has    *)
(* reached an outcome; no failure of one fetch leaves a sibling pending.   *)
(***************************************************************************)
MergeWaitsForEveryFetch ==
    (Ended /\ source = "ok") => \A i \in Tasks : tmp[i].st # "pending"

(***************************************************************************)
(* C13: a request that ends with HTTP 200 carries a merged payload that is *)
(* not empty.                                                              *)
(***************************************************************************)
Payload200NotEmpty ==
    Ended200 => Body # <<>> /\ response.content # <<>>

(***************************************************************************)
(* C14: when both classified lists are empty the handler goes from the     *)
(* classification straight to HTTP 500 "There is nothing to return":       *)
(* merge_all is never entered and no subscription GET is issued.           *)
(***************************************************************************)
EmptyListsFailFast ==
    (source = "ok" /\ sub_links = <<>> /\ vless_links = <<>>) =>
        /\ pc \in {"main", "done"}
        /\ requested = <<>> /\ tmp = <<>> /\ done = <<>>
        /\ pc = "done" =>
               /\ response.kind = "http_exception"
               /\ ClientStatus(response) = 500
               /\ ClientText(response) = NothingDetail

\* a document whose lines are all dropped was answered
NothingClassifiedAnswered ==
    /\ Ended
    /\ source = "ok"
    /\ lines # <<>>
    /\ sub_links = <<>> /\ vless_links = <<>>
    /\ ClientStatus(response) = 500

(***************************************************************************)
(* C15: once merge_all is entered there is exactly one GET per position of *)
(* the endpoint list, to the endpoint text followed by the client          *)
(* identifier; no position finishes twice, and a URL that occurs k times   *)
(* in the list is requested k times, each with an outcome of its own.      *)
(***************************************************************************)
\* the positions of the endpoint list that hold the URL u
PositionsOf(u) ==
    {i \in 1..Len(sub_links) :
        /\ Len(u) = Len(sub_links[i]) + Len(sub_id)
        /\ \A k \in 1..Len(sub_links[i]) : u[k] = sub_links[i][k]
        /\ \A k \in 1..Len(sub_id) : u[Len(sub_links[i]) + k] = sub_id[k]}

OneGetPerPosition ==
    (source = "ok" /\ pc \in {"gather", "done"} /\ ~(sub_links = <<>> /\ vless_links = <<>>)) =>
        /\ Len(requested) = Len(sub_links)
        /\ Len(tmp) = Len(sub_links)
        /\ \A i \in 1..Len(sub_links) : i \in PositionsOf(requested[i])
        /\ \A i \in 1..Len(requested) :
               Cardinality({j \in 1..Len(requested) : requested[j] = requested[i]})
                   = Cardinality(PositionsOf(requested[i]))
        /\ \A i \in Tasks :
               Cardinality({k \in 1..Len(done) : done[k] = i})
                   = IF tmp[i].st = "pending" THEN 0 ELSE 1
        /\ Ended200 =>
               Len(Body) >= SubsLen
               /\ Cardinality({i \in Tasks : Succeeded(i)}) <= Len(requested)

\* the same URL at two positions, requested twice with the client
\* identifier appended, failing once and contributing one payload
RepeatedEndpointFetchedTwice ==
    /\ Ended200
    /\ sub_id # <<>>
    /\ \E i, j \in Tasks :
           /\ i # j
           /\ requested[i] = requested[j]
           /\ TransportFailed(i)
           /\ Succeeded(j) /\ tmp[j].val # <<>>

(***************************************************************************)
(* C16: in local mode a failed read of the source list leaves fetch_links  *)
(* and the handler as an unhandled error: it is not answered 404, nothing  *)
(* is classified, no subscription GET is issued and nothing is merged.     *)
(***************************************************************************)
LocalReadFailurePropagates ==
    /\ source = "io_error" =>
           /\ local_mode
           /\ Ended
           /\ response.kind = "unhandled"
           /\ response.exc \in {"FileNotFoundError", "PermissionError"}
           /\ ClientStatus(response) # 404
           /\ lines = <<>> /\ sub_links = <<>> /\ vless_links = <<>>
           /\ requested = <<>> /\ tmp = <<>> /\ done = <<>>
    /\ (Ended /\ local_mode /\ source # "ok") => source = "io_error"

\* configs.txt is missing
LocalFileMissing ==
    /\ Ended
    /\ local_mode
    /\ source = "io_error"
    /\ response.exc = "FileNotFoundError"

====
